---- MODULE Spec2Model ----
(***************************************************************************)
(* Model of the joystick front end of project-meguru-remote               *)
(* (src/src/main.js, the current variant starting at line 318; the older  *)
(* variant above it has no touch arbitration, slider or arm commands).    *)
(*                                                                         *)
(* The page is a single-threaded event loop: every action below is one    *)
(* run-to-completion step of it, that is one event handler or timer       *)
(* callback up to its first await, or the continuation after an await.    *)
(* A Tauri invoke() that has been issued and not yet settled is a message *)
(* in flight; it settles (resolves or rejects) in a later step.           *)
(***************************************************************************)
EXTENDS Integers, Sequences, FiniteSets, TLC

VARIABLES
    \* ---- globals of main.js (lines 348-362) ----
    isConnected,              \* let isConnected
    controllerUsable,         \* let controllerUsable
    pollIntervalId,           \* TRUE when the variable holds a timer id, FALSE when null
    sendIntervalId,           \* TRUE when the variable holds a timer id, FALSE when null
    liftingPendingValue,      \* a byte or Null
    liftingSendTimeoutId,     \* TRUE when the variable holds a timer id, FALSE when null
    joystickActive,
    currentX,
    currentY,
    activeTouches,            \* key set of the Map (the stored points are never read)
    primaryTouchId,           \* a touch identifier or Null
    \* ---- DOM state the handlers write ----
    connectDefaultBtnDisabled,
    disconnectBtnDisabled,
    \* ---- the browser's timer table: live timers created by the page ----
    pollTimers,               \* live setInterval(pollControllerStatus) timers
    sendTimers,               \* live setInterval(sendJoystickData) timers
    liftTimers,               \* live setTimeout timers of queueLiftingSend
    \* ---- environment ----
    touches,                  \* the browser's TouchList: sequence of <<identifier, point,
                              \* started on the base>>; no handler reads the third component
    startup,                  \* position of the DOMContentLoaded handler
    pollInFlight,             \* poll_controller_status round-trips not yet settled
    axisInFlight,             \* send_joystick_data round-trips not yet settled: their <<x, y>>
    connectInFlight,          \* connect round-trips not yet settled
    disconnectInFlight,       \* disconnect round-trips not yet settled
    \* ---- observation (history) variables, not read by any handler ----
    ev,                       \* what the last step was and which transport call it issued
    lastSent,                 \* <<x, y>> of the last send_joystick_data that resolved, or <<>>
    zeroSends,                \* center sends since the last primary release, -1 when not counting
    liftLast,                 \* last slider value submitted while connected and usable, or Null
    liftSubmits,              \* values submitted while connected and usable in the latest debounce window
    connectFrom,              \* per pending connect round-trip: isConnected when it was issued
    disconnectFrom,           \* per pending disconnect round-trip: isConnected when it was issued
    \* ---- arm command buttons ----
    lastTriggerTime,          \* let lastTriggerTime of each bindInstantButton closure
    now,                      \* the clock read by Date.now(), in ms
    lastFire                  \* observation: when action() last ran for each button, or Null

gvars == <<isConnected, controllerUsable, pollIntervalId, sendIntervalId,
           liftingPendingValue, liftingSendTimeoutId, joystickActive, currentX,
           currentY, activeTouches, primaryTouchId, connectDefaultBtnDisabled,
           disconnectBtnDisabled, pollTimers, sendTimers, liftTimers>>

envvars == <<touches, startup, pollInFlight, axisInFlight, connectInFlight,
             disconnectInFlight>>

liftObs == <<liftLast, liftSubmits>>

linkObs == <<connectFrom, disconnectFrom>>

cmdvars == <<lastTriggerTime, now, lastFire>>

vars == <<gvars, envvars, ev, lastSent, zeroSends, liftObs, linkObs, cmdvars>>

-----------------------------------------------------------------------------
(* Constants of the program and bounds of the model *)

\* null, in the variables that hold a byte or a touch identifier
Null == -1

JOYSTICK_ZERO_VALUE == 127

LIFTING_MIN == 0

LIFTING_MAX == 255

DEBOUNCE_MS == 120

\* the buttons bound by bindInstantButton: grabBtn, releaseBtn, throwBtn
Controls == {"grab", "release", "throw"}

\* Date.now() when the page loads.  It is the time since 1970, far more than
\* DEBOUNCE_MS; any value from DEBOUNCE_MS on behaves in the same way.
PageLoadTime == 1000

\* the clock is observed every ClockStep ms
ClockStep == 40

\* clock steps taken after the page has loaded
MaxClockSteps == 4

\* rect.width of joystickBase.getBoundingClientRect(); the base is square
BaseWidth == 200

\* poll_controller_status round-trips that may be in flight at once
MaxPolls == 1

\* send_joystick_data round-trips that may be in flight at once
MaxSends == 2

\* disconnect round-trips that may be in flight at once
MaxLinkCalls == 1

\* connect round-trips that may be in flight at once
MaxConnects == 2

\* where the count of center sends after a release saturates
MaxZeroSends == 6

\* where the count of values submitted in one debounce window saturates
MaxSubmits == 3

\* Points of the screen, as offsets <<dx, dy>> from the center of the base:
\* the exact center, full right on the rim of the stick's travel, and a
\* point to the right of the base, outside its rectangle.
Points == {<<0, 0>>, <<89, 0>>, <<150, 0>>}

\* values the slider can report (Number(event.target.value), min..max)
LiftingInputs == {LIFTING_MIN, 128, LIFTING_MAX}

Center == <<JOYSTICK_ZERO_VALUE, JOYSTICK_ZERO_VALUE>>

\* the sequence without its i-th element
Remove(seq, i) == SubSeq(seq, 1, i - 1) \o SubSeq(seq, i + 1, Len(seq))

Min(a, b) == IF a < b THEN a ELSE b

Max(a, b) == IF a > b THEN a ELSE b

-----------------------------------------------------------------------------
(* The state the handlers read and write, as one record, so that a handler *)
(* that calls other functions is the composition of their effects.        *)

Globals ==
    [isConnected |-> isConnected, controllerUsable |-> controllerUsable,
     pollIntervalId |-> pollIntervalId, sendIntervalId |-> sendIntervalId,
     liftingPendingValue |-> liftingPendingValue,
     liftingSendTimeoutId |-> liftingSendTimeoutId,
     joystickActive |-> joystickActive, currentX |-> currentX,
     currentY |-> currentY, activeTouches |-> activeTouches,
     primaryTouchId |-> primaryTouchId,
     connectDefaultBtnDisabled |-> connectDefaultBtnDisabled,
     disconnectBtnDisabled |-> disconnectBtnDisabled,
     pollTimers |-> pollTimers, sendTimers |-> sendTimers,
     liftTimers |-> liftTimers]

Commit(s) ==
    /\ isConnected' = s.isConnected
    /\ controllerUsable' = s.controllerUsable
    /\ pollIntervalId' = s.pollIntervalId
    /\ sendIntervalId' = s.sendIntervalId
    /\ liftingPendingValue' = s.liftingPendingValue
    /\ liftingSendTimeoutId' = s.liftingSendTimeoutId
    /\ joystickActive' = s.joystickActive
    /\ currentX' = s.currentX
    /\ currentY' = s.currentY
    /\ activeTouches' = s.activeTouches
    /\ primaryTouchId' = s.primaryTouchId
    /\ connectDefaultBtnDisabled' = s.connectDefaultBtnDisabled
    /\ disconnectBtnDisabled' = s.disconnectBtnDisabled
    /\ pollTimers' = s.pollTimers
    /\ sendTimers' = s.sendTimers
    /\ liftTimers' = s.liftTimers

Event(op, call, arg) == [op |-> op, call |-> call, arg |-> arg]

-----------------------------------------------------------------------------
(* Functions of main.js *)

\* resetJoystick(): the axes return to the center value
ResetJoystick(s) ==
    [s EXCEPT !.currentX = JOYSTICK_ZERO_VALUE, !.currentY = JOYSTICK_ZERO_VALUE]

\* startPolling(): arms the poll timer unless one is recorded
StartPolling(s) ==
    IF s.pollIntervalId
    THEN s
    ELSE [s EXCEPT !.pollIntervalId = TRUE, !.pollTimers = @ + 1]

\* stopPolling(): clears the poll timer and the send timer
StopPolling(s) ==
    LET a == IF s.pollIntervalId
             THEN [s EXCEPT !.pollIntervalId = FALSE, !.pollTimers = @ - 1]
             ELSE s
    IN  IF a.sendIntervalId
        THEN [a EXCEPT !.sendIntervalId = FALSE, !.sendTimers = @ - 1]
        ELSE a

\* updateControllerStatus(usable) arming a send timer on every usable report,
\* whether or not one is recorded (seeded fault)
UpdateControllerStatusRearms(s, usable) ==
    LET a == [s EXCEPT !.controllerUsable = usable]
    IN  IF usable
        THEN [a EXCEPT !.sendIntervalId = TRUE, !.sendTimers = @ + 1]
        ELSE ResetJoystick(
                 IF a.sendIntervalId
                 THEN [a EXCEPT !.sendIntervalId = FALSE, !.sendTimers = @ - 1]
                 ELSE a)

\* updateControllerStatus(usable)
UpdateControllerStatus(s, usable) ==
    LET a == [s EXCEPT !.controllerUsable = usable]
    IN  IF usable
        THEN IF ~a.sendIntervalId
             THEN [a EXCEPT !.sendIntervalId = TRUE, !.sendTimers = @ + 1]
             ELSE a
        ELSE ResetJoystick(
                 IF a.sendIntervalId
                 THEN [a EXCEPT !.sendIntervalId = FALSE, !.sendTimers = @ - 1]
                 ELSE a)

\* updateConnectionStatus(connected) whose disconnected branch does not call
\* updateControllerStatus(false) (seeded fault)
UpdateConnectionStatusKeepsController(s, connected) ==
    LET a == [s EXCEPT !.isConnected = connected]
    IN  IF connected
        THEN StartPolling([a EXCEPT !.disconnectBtnDisabled = FALSE,
                                    !.connectDefaultBtnDisabled = TRUE])
        ELSE StopPolling([a EXCEPT !.disconnectBtnDisabled = TRUE,
                                   !.connectDefaultBtnDisabled = FALSE])

\* updateConnectionStatus(connected)
UpdateConnectionStatus(s, connected) ==
    LET a == [s EXCEPT !.isConnected = connected]
    IN  IF connected
        THEN StartPolling([a EXCEPT !.disconnectBtnDisabled = FALSE,
                                    !.connectDefaultBtnDisabled = TRUE])
        ELSE UpdateControllerStatus(
                 StopPolling([a EXCEPT !.disconnectBtnDisabled = TRUE,
                                       !.connectDefaultBtnDisabled = FALSE]),
                 FALSE)

-----------------------------------------------------------------------------
(* The state once the script has run and the DOMContentLoaded handler has  *)
(* reached its first await (check_ble_permissions is in flight).  Whether *)
(* the page's markup starts the two buttons disabled is not part of       *)
(* main.js, so both answers are initial states.                           *)
Init ==
    /\ isConnected = FALSE
    /\ controllerUsable = FALSE
    /\ pollIntervalId = FALSE
    /\ sendIntervalId = FALSE
    /\ liftingPendingValue = Null
    /\ liftingSendTimeoutId = FALSE
    /\ joystickActive = FALSE
    /\ currentX = JOYSTICK_ZERO_VALUE
    /\ currentY = JOYSTICK_ZERO_VALUE
    /\ activeTouches = {}
    /\ primaryTouchId = Null
    /\ connectDefaultBtnDisabled \in BOOLEAN
    /\ disconnectBtnDisabled \in BOOLEAN
    /\ pollTimers = 0
    /\ sendTimers = 0
    /\ liftTimers = 0
    /\ touches = <<>>
    /\ startup = "checkPermissions"
    /\ pollInFlight = 0
    /\ axisInFlight = <<>>
    /\ connectInFlight = 0
    /\ disconnectInFlight = 0
    /\ ev = Event("init", "check_ble_permissions", <<>>)
    /\ lastSent = <<>>
    /\ zeroSends = -1
    /\ liftLast = Null
    /\ liftSubmits = 0
    /\ connectFrom = <<>>
    /\ disconnectFrom = <<>>
    /\ lastTriggerTime = [c \in Controls |-> 0]
    /\ now = PageLoadTime
    /\ lastFire = [c \in Controls |-> Null]


-----------------------------------------------------------------------------
(* Start-up: the DOMContentLoaded handler (lines 875-934) has bound the    *)
(* listeners and awaits checkPermissions(), then autoConnect().            *)

\* checkPermissions() settles (either way it only logs); autoConnect() starts
\* and issues preload_operation
PermissionsSettle ==
    /\ startup = "checkPermissions"
    /\ startup' = "autoConnect"
    /\ ev' = Event("autoConnect", "preload_operation", <<>>)
    /\ UNCHANGED <<cmdvars, linkObs, liftObs, gvars, touches, pollInFlight, axisInFlight, connectInFlight,
                   disconnectInFlight, lastSent, zeroSends>>

\* autoConnect(): preload_operation resolved
AutoConnectResolve ==
    /\ startup = "autoConnect"
    /\ startup' = "done"
    /\ Commit(UpdateConnectionStatus(Globals, TRUE))
    /\ ev' = Event("autoConnectResolve", "none", <<>>)
    /\ zeroSends' = -1
    /\ UNCHANGED <<cmdvars, linkObs, liftObs, touches, pollInFlight, axisInFlight, connectInFlight,
                   disconnectInFlight, lastSent>>

\* autoConnect(): preload_operation rejected
AutoConnectReject ==
    /\ startup = "autoConnect"
    /\ startup' = "done"
    /\ Commit(UpdateConnectionStatus(Globals, FALSE))
    /\ ev' = Event("autoConnectReject", "none", <<FALSE>>)
    /\ zeroSends' = -1
    /\ UNCHANGED <<cmdvars, linkObs, liftObs, touches, pollInFlight, axisInFlight, connectInFlight,
                   disconnectInFlight, lastSent>>

-----------------------------------------------------------------------------
(* Connect and disconnect buttons *)

\* click on connectDefaultBtn: connectToDevice() up to its await.  A disabled
\* button delivers no click; nothing else holds a click back.
ConnectClick ==
    /\ ~connectDefaultBtnDisabled
    /\ connectInFlight < MaxConnects
    /\ connectInFlight' = connectInFlight + 1
    /\ connectFrom' = Append(connectFrom, isConnected)
    /\ ev' = Event("connectToDevice", "connect", <<>>)
    /\ UNCHANGED <<cmdvars, disconnectFrom, liftObs, gvars, touches, startup, pollInFlight,
                   axisInFlight, disconnectInFlight, lastSent, zeroSends>>

\* connectToDevice(): connect resolved
ConnectResolve ==
    /\ connectInFlight > 0
    /\ connectInFlight' = connectInFlight - 1
    /\ \E i \in DOMAIN connectFrom : connectFrom' = Remove(connectFrom, i)
    /\ Commit(UpdateConnectionStatus(Globals, TRUE))
    /\ ev' = Event("connectResolve", "none", <<>>)
    /\ zeroSends' = -1
    /\ UNCHANGED <<cmdvars, disconnectFrom, liftObs, touches, startup, pollInFlight,
                   axisInFlight, disconnectInFlight, lastSent>>

\* connectToDevice(): connect rejected (the catch block)
ConnectReject ==
    /\ connectInFlight > 0
    /\ connectInFlight' = connectInFlight - 1
    /\ \E i \in DOMAIN connectFrom :
           /\ connectFrom' = Remove(connectFrom, i)
           /\ ev' = Event("connectReject", "none", <<connectFrom[i]>>)
    /\ Commit(UpdateConnectionStatus(Globals, FALSE))
    /\ zeroSends' = -1
    /\ UNCHANGED <<cmdvars, disconnectFrom, liftObs, touches, startup, pollInFlight,
                   axisInFlight, disconnectInFlight, lastSent>>

\* click on disconnectBtn: disconnect() up to its await
DisconnectClick ==
    /\ ~disconnectBtnDisabled
    /\ disconnectInFlight < MaxLinkCalls
    /\ disconnectInFlight' = disconnectInFlight + 1
    /\ disconnectFrom' = Append(disconnectFrom, isConnected)
    /\ ev' = Event("disconnect", "disconnect", <<>>)
    /\ UNCHANGED <<cmdvars, connectFrom, liftObs, gvars, touches, startup, pollInFlight,
                   axisInFlight, connectInFlight, lastSent, zeroSends>>

\* disconnect(): the transport call resolved
DisconnectResolve ==
    /\ disconnectInFlight > 0
    /\ disconnectInFlight' = disconnectInFlight - 1
    /\ \E i \in DOMAIN disconnectFrom :
           /\ disconnectFrom' = Remove(disconnectFrom, i)
           /\ ev' = Event("disconnectResolve", "none", <<disconnectFrom[i]>>)
    /\ Commit(UpdateConnectionStatus(Globals, FALSE))
    /\ zeroSends' = -1
    /\ UNCHANGED <<cmdvars, connectFrom, liftObs, touches, startup, pollInFlight,
                   axisInFlight, connectInFlight, lastSent>>

\* disconnect(): the transport call rejected (the catch block)
DisconnectReject ==
    /\ disconnectInFlight > 0
    /\ disconnectInFlight' = disconnectInFlight - 1
    /\ \E i \in DOMAIN disconnectFrom :
           /\ disconnectFrom' = Remove(disconnectFrom, i)
           /\ ev' = Event("disconnectReject", "none", <<disconnectFrom[i]>>)
    /\ Commit(UpdateConnectionStatus(Globals, FALSE))
    /\ zeroSends' = -1
    /\ UNCHANGED <<cmdvars, connectFrom, liftObs, touches, startup, pollInFlight,
                   axisInFlight, connectInFlight, lastSent>>

-----------------------------------------------------------------------------
(* Usability poller *)

\* pollControllerStatus() up to its await: TRUE when it issues the poll
PollControllerStatus(s) == s.isConnected

\* the poll timer fires
PollTick ==
    /\ pollTimers > 0
    /\ IF PollControllerStatus(Globals)
       THEN /\ pollInFlight < MaxPolls
            /\ pollInFlight' = pollInFlight + 1
            /\ ev' = Event("pollControllerStatus", "poll_controller_status", <<>>)
       ELSE /\ UNCHANGED pollInFlight
            /\ ev' = Event("pollControllerStatus", "none", <<>>)
    /\ UNCHANGED <<cmdvars, linkObs, liftObs, gvars, touches, startup, axisInFlight, connectInFlight,
                   disconnectInFlight, lastSent, zeroSends>>

\* pollControllerStatus() after a poll that resolved with `usable`
PollResolved(s, usable) == UpdateControllerStatus(s, usable)

\* pollControllerStatus() whose catch block drops the link (seeded fault)
PollRejectedDropsLink(s) == UpdateConnectionStatus(s, FALSE)

\* pollControllerStatus() after a poll that rejected (the catch block)
PollRejected(s) == UpdateControllerStatus(s, FALSE)

PollResolve(usable) ==
    /\ pollInFlight > 0
    /\ pollInFlight' = pollInFlight - 1
    /\ Commit(PollResolved(Globals, usable))
    /\ ev' = Event("pollResolve", "none", <<usable, sendIntervalId>>)
    /\ zeroSends' = IF usable THEN zeroSends ELSE -1
    /\ UNCHANGED <<cmdvars, linkObs, liftObs, touches, startup, axisInFlight, connectInFlight,
                   disconnectInFlight, lastSent>>

PollReject ==
    /\ pollInFlight > 0
    /\ pollInFlight' = pollInFlight - 1
    /\ Commit(PollRejected(Globals))
    /\ ev' = Event("pollReject", "none", <<>>)
    /\ zeroSends' = -1
    /\ UNCHANGED <<cmdvars, linkObs, liftObs, touches, startup, axisInFlight, connectInFlight,
                   disconnectInFlight, lastSent>>

-----------------------------------------------------------------------------
(* Axis dispatcher *)

\* sendJoystickData() that sends only a value that differs from the last one
\* sent (seeded fault)
SendJoystickDataOnChange(s) ==
    IF ~s.isConnected \/ ~s.controllerUsable \/ <<s.currentX, s.currentY>> = lastSent
    THEN <<>>
    ELSE << <<s.currentX, s.currentY>> >>

\* sendJoystickData() that does not look at isConnected (seeded fault)
SendJoystickDataUsableOnly(s) ==
    IF ~s.controllerUsable
    THEN <<>>
    ELSE << <<s.currentX, s.currentY>> >>

\* sendJoystickData() that skips while a send is in flight (seeded fault)
SendJoystickDataOneInFlight(s) ==
    IF ~s.isConnected \/ ~s.controllerUsable \/ axisInFlight # <<>>
    THEN <<>>
    ELSE << <<s.currentX, s.currentY>> >>

\* sendJoystickData() that sends only while the stick is held (seeded fault)
SendJoystickDataActiveOnly(s) ==
    IF ~s.isConnected \/ ~s.controllerUsable \/ ~s.joystickActive
    THEN <<>>
    ELSE << <<s.currentX, s.currentY>> >>

\* sendJoystickData() up to its await: the send_joystick_data calls it issues
SendJoystickData(s) ==
    IF ~s.isConnected \/ ~s.controllerUsable
    THEN <<>>
    ELSE << <<s.currentX, s.currentY>> >>

\* the send timer fires
Tick ==
    /\ sendTimers > 0
    /\ LET calls == SendJoystickData(Globals)
       IN  /\ Len(axisInFlight) + Len(calls) <= MaxSends
           /\ axisInFlight' = axisInFlight \o calls
           /\ ev' = IF calls = <<>>
                    THEN Event("sendJoystickData", "none", <<>>)
                    ELSE Event("sendJoystickData", "send_joystick_data", calls[1])
           /\ zeroSends' =
                  IF zeroSends < 0 \/ ~isConnected \/ ~controllerUsable
                     \/ axisInFlight # <<>>
                  THEN -1
                  ELSE IF calls = <<Center>>
                       THEN Min(zeroSends + 1, MaxZeroSends)
                       ELSE zeroSends
    /\ UNCHANGED <<cmdvars, linkObs, liftObs, gvars, touches, startup, pollInFlight, connectInFlight,
                   disconnectInFlight, lastSent>>

\* a send_joystick_data round-trip resolves (nothing follows the await)
AxisResolve(i) ==
    /\ i \in DOMAIN axisInFlight
    /\ axisInFlight' = Remove(axisInFlight, i)
    /\ lastSent' = axisInFlight[i]
    /\ ev' = Event("sendResolve", "none", <<>>)
    /\ UNCHANGED <<cmdvars, linkObs, liftObs, gvars, touches, startup, pollInFlight, connectInFlight,
                   disconnectInFlight, zeroSends>>

\* a send_joystick_data round-trip rejects (the catch block only logs)
AxisReject(i) ==
    /\ i \in DOMAIN axisInFlight
    /\ axisInFlight' = Remove(axisInFlight, i)
    /\ ev' = Event("sendReject", "none", <<>>)
    /\ zeroSends' = -1
    /\ UNCHANGED <<cmdvars, linkObs, liftObs, gvars, touches, startup, pollInFlight, connectInFlight,
                   disconnectInFlight, lastSent>>


-----------------------------------------------------------------------------
(* Lifting-arm slider channel *)

\* queueLiftingSend(value) that keeps the first value of a window (seeded fault)
QueueLiftingSendFirstWins(s, value) ==
    IF ~s.isConnected \/ ~s.controllerUsable
    THEN s
    ELSE IF s.liftingSendTimeoutId
         THEN s
         ELSE [s EXCEPT !.liftingPendingValue = value,
                        !.liftingSendTimeoutId = TRUE, !.liftTimers = @ + 1]

\* queueLiftingSend(value) without the test of the link and the controller
\* (seeded fault)
QueueLiftingSendUnguarded(s, value) ==
    LET a == [s EXCEPT !.liftingPendingValue = value]
    IN  IF a.liftingSendTimeoutId
        THEN a
        ELSE [a EXCEPT !.liftingSendTimeoutId = TRUE, !.liftTimers = @ + 1]

\* queueLiftingSend(value), the synchronous part
QueueLiftingSend(s, value) ==
    IF ~s.isConnected \/ ~s.controllerUsable
    THEN s
    ELSE LET a == [s EXCEPT !.liftingPendingValue = value]
         IN  IF a.liftingSendTimeoutId
             THEN a
             ELSE [a EXCEPT !.liftingSendTimeoutId = TRUE, !.liftTimers = @ + 1]

\* the setTimeout callback of queueLiftingSend sending the pending value
\* without clearing it (seeded fault)
LiftingTimeoutKeepsPending(s) ==
    LET a == [s EXCEPT !.liftingSendTimeoutId = FALSE, !.liftTimers = @ - 1]
    IN  IF a.liftingPendingValue = Null
        THEN [state |-> a, calls |-> <<>>]
        ELSE [state |-> a, calls |-> <<a.liftingPendingValue>>]

\* the setTimeout callback of queueLiftingSend, up to the await inside
\* sendLiftingArmValue: the state it leaves and the send_lifting_arm_value
\* calls it issues.  The timer is one-shot: firing removes it.
LiftingTimeout(s) ==
    LET a == [s EXCEPT !.liftingSendTimeoutId = FALSE, !.liftTimers = @ - 1]
    IN  IF a.liftingPendingValue = Null
        THEN [state |-> a, calls |-> <<>>]
        ELSE [state |-> [a EXCEPT !.liftingPendingValue = Null],
              calls |-> <<a.liftingPendingValue>>]


\* input or change event of the slider: handleLiftingInput (lines 898-902)
LiftingInput(value) ==
    /\ Commit(QueueLiftingSend(Globals, value))
    /\ liftLast' = IF isConnected /\ controllerUsable THEN value ELSE liftLast
    /\ liftSubmits' = IF ~(isConnected /\ controllerUsable) THEN liftSubmits
                      ELSE IF liftTimers = 0 THEN 1
                      ELSE Min(liftSubmits + 1, MaxSubmits)
    /\ ev' = Event("queueLiftingSend", "none", <<value>>)
    /\ UNCHANGED <<envvars, lastSent, zeroSends, linkObs, cmdvars>>

\* a timer armed by queueLiftingSend expires.  What follows the await in
\* sendLiftingArmValue only logs, so the round-trip is not tracked further.
LiftingTimerFire ==
    /\ liftTimers > 0
    /\ LET r == LiftingTimeout(Globals)
       IN  /\ Commit(r.state)
           /\ ev' = IF r.calls = <<>>
                    THEN Event("liftingTimeout", "none", <<>>)
                    ELSE Event("liftingTimeout", "send_lifting_arm_value", r.calls)
    /\ UNCHANGED <<envvars, lastSent, zeroSends, liftObs, linkObs, cmdvars>>

-----------------------------------------------------------------------------
(* Arm command buttons *)

\* grabArm() that also asks for a usable controller (seeded fault)
GrabArmWhenUsable(s) ==
    IF ~s.isConnected \/ ~s.controllerUsable
    THEN [calls |-> <<>>, log |-> "warning"]
    ELSE [calls |-> <<"grab">>, log |-> "info"]

\* grabArm() up to its await: the send_arm_command calls it issues and the
\* type of the line it logs
GrabArm(s) ==
    IF ~s.isConnected
    THEN [calls |-> <<>>, log |-> "warning"]
    ELSE [calls |-> <<"grab">>, log |-> "info"]

\* releaseArm() up to its await
ReleaseArm(s) ==
    IF ~s.isConnected
    THEN [calls |-> <<>>, log |-> "warning"]
    ELSE [calls |-> <<"release">>, log |-> "info"]

\* throwArm() up to its await
ThrowArm(s) ==
    IF ~s.isConnected
    THEN [calls |-> <<>>, log |-> "warning"]
    ELSE [calls |-> <<"throw">>, log |-> "info"]

\* the action bound to each button (lines 894-896)
ActionOf(c, s) ==
    CASE c = "grab" -> GrabArm(s)
      [] c = "release" -> ReleaseArm(s)
      [] c = "throw" -> ThrowArm(s)

ActionName(c) ==
    CASE c = "grab" -> "grabArm"
      [] c = "release" -> "releaseArm"
      [] c = "throw" -> "throwArm"

\* doAction() that does not record the time of the fire (seeded fault)
DoActionKeepsTime(last, t) ==
    IF t - last < DEBOUNCE_MS
    THEN [fire |-> FALSE, last |-> last]
    ELSE [fire |-> TRUE, last |-> last]

\* doAction() of bindInstantButton with lastTriggerTime = last at time t:
\* whether action() is called, and the lastTriggerTime it leaves
DoAction(last, t) ==
    IF t - last < DEBOUNCE_MS
    THEN [fire |-> FALSE, last |-> last]
    ELSE [fire |-> TRUE, last |-> t]

\* touchstart or click on the button of control c.  Both listeners end in
\* doAction(); the touchstart listener also plays the button animation.
\* What follows the await of an arm command only logs, so its round-trip is
\* not tracked further.
Trigger(c, kind) ==
    LET d == DoAction(lastTriggerTime[c], now)
        r == ActionOf(c, Globals)
        gap == IF lastFire[c] = Null THEN Null ELSE now - lastFire[c]
    IN  /\ kind \in {"touchstart", "click"}
        /\ lastTriggerTime' = [lastTriggerTime EXCEPT ![c] = d.last]
        /\ lastFire' = IF d.fire THEN [lastFire EXCEPT ![c] = now] ELSE lastFire
        /\ ev' = IF ~d.fire
                 THEN Event("doAction", "none", <<c, gap>>)
                 ELSE Event(ActionName(c),
                            IF r.calls = <<>> THEN "none" ELSE "send_arm_command",
                            <<c, gap, r.log>> \o r.calls)
        /\ UNCHANGED <<gvars, envvars, lastSent, zeroSends, liftObs, linkObs, now>>

\* time passes
ClockAdvance ==
    /\ now < PageLoadTime + MaxClockSteps * ClockStep
    /\ now' = now + ClockStep
    /\ ev' = Event("time", "none", <<>>)
    /\ UNCHANGED <<gvars, envvars, lastSent, zeroSends, liftObs, linkObs,
                   lastTriggerTime, lastFire>>

-----------------------------------------------------------------------------
(* Joystick geometry and pointer arbitration *)

\* isTouchInJoystick(clientX, clientY): the point lies in the base's rectangle
IsTouchInJoystick(p) ==
    /\ 2 * p[1] >= -BaseWidth
    /\ 2 * p[1] <= BaseWidth
    /\ 2 * p[2] >= -BaseWidth
    /\ 2 * p[2] <= BaseWidth

\* positionToValue(position) computed as round((position + 1) * 128) with no
\* clamp (seeded fault)
PositionToValueTimes128(n, d) == ((n + d) * 256 + d) \div (2 * d)

\* positionToValue(position) computed as round(position * 127.5), the shift
\* by one forgotten (seeded fault)
PositionToValueUnshifted(n, d) ==
    Max(0, Min(255, (n * 255 + d) \div (2 * d)))

\* positionToValue(position) for position = n / d with d > 0.
\* Math.round rounds halves up: round(v) = floor(v + 1/2), and
\* (n/d + 1) * 127.5 + 1/2 = ((n + d) * 255 + d) / (2 * d).
PositionToValue(n, d) ==
    Max(0, Min(255, ((n + d) * 255 + d) \div (2 * d)))

Sgn(a) == IF a > 0 THEN 1 ELSE IF a < 0 THEN -1 ELSE 0

\* 200 * maxRadius: maxRadius = width / 2 - (width / 2) * 0.11
MaxRadius200 == BaseWidth * 89

\* <<normalizedX, normalizedY>> of handleJoystickMove, each a fraction <<n, d>>.
\* A displacement longer than maxRadius is rescaled to maxRadius along its
\* angle; the model computes this for displacements along one axis, where
\* cos and sin are 0 and +-1.
Normalized(p) ==
    IF 40000 * (p[1] * p[1] + p[2] * p[2]) > MaxRadius200 * MaxRadius200
    THEN CASE p[2] = 0 -> << <<Sgn(p[1]), 1>>, <<0, 1>> >>
           [] p[1] = 0 -> << <<0, 1>>, <<Sgn(p[2]), 1>> >>
    ELSE << <<200 * p[1], MaxRadius200>>, <<200 * p[2], MaxRadius200>> >>

\* handleJoystickMove(clientX, clientY)
HandleJoystickMove(s, p) ==
    LET n == Normalized(p)
    IN  [s EXCEPT !.currentX = PositionToValue(n[1][1], n[1][2]),
                  !.currentY = PositionToValue(n[2][1], n[2][2])]

\* startJoystick(event) for the point of event.touches[0] or of the mouse
StartJoystick(s, p) == HandleJoystickMove([s EXCEPT !.joystickActive = TRUE], p)

\* stopJoystick() without the reset of the axes (seeded fault)
StopJoystickNoReset(s) ==
    IF ~s.joystickActive
    THEN s
    ELSE [s EXCEPT !.joystickActive = FALSE]

\* stopJoystick()
StopJoystick(s) ==
    IF ~s.joystickActive
    THEN s
    ELSE ResetJoystick([s EXCEPT !.joystickActive = FALSE])

\* index of the first touch of the list that lies in the base, 0 if none
FirstInJoystick(ts) ==
    LET I == {i \in DOMAIN ts : IsTouchInJoystick(ts[i][2])}
    IN  IF I = {} THEN 0 ELSE CHOOSE i \in I : \A j \in I : i <= j

\* handleTouchStart(event), ts = event.touches
HandleTouchStart(s, ts) ==
    LET a == [s EXCEPT !.activeTouches =
                  @ \cup {ts[i][1] : i \in {j \in DOMAIN ts : IsTouchInJoystick(ts[j][2])}}]
        f == FirstInJoystick(ts)
    IN  IF a.primaryTouchId = Null /\ f # 0
        THEN StartJoystick([a EXCEPT !.primaryTouchId = ts[f][1]], ts[f][2])
        ELSE a

\* handleTouchMove(event), ts = event.touches
HandleTouchMove(s, ts) ==
    IF s.primaryTouchId # Null /\ s.joystickActive
    THEN LET I == {i \in DOMAIN ts : ts[i][1] = s.primaryTouchId}
         IN  IF I = {}
             THEN s
             ELSE LET p == ts[CHOOSE i \in I : TRUE][2]
                  IN  IF IsTouchInJoystick(p) THEN HandleJoystickMove(s, p) ELSE s
    ELSE s

\* handleTouchEnd(event): the loop over changed = event.changedTouches
\* (identifiers) from index i on, ts = event.touches
RECURSIVE HandleTouchEndFrom(_, _, _, _)
HandleTouchEndFrom(s, changed, ts, i) ==
    IF i > Len(changed)
    THEN s
    ELSE LET a == [s EXCEPT !.activeTouches = @ \ {changed[i]}]
             b == IF changed[i] = a.primaryTouchId
                  THEN LET c == StopJoystick([a EXCEPT !.primaryTouchId = Null])
                           f == FirstInJoystick(ts)
                       IN  IF f # 0
                           THEN StartJoystick([c EXCEPT !.primaryTouchId = ts[f][1]],
                                              ts[f][2])
                           ELSE c
                  ELSE a
         IN  HandleTouchEndFrom(b, changed, ts, i + 1)

HandleTouchEnd(s, changed, ts) == HandleTouchEndFrom(s, changed, ts, 1)

\* handleTouchCancel(event)
HandleTouchCancel(s) ==
    StopJoystick([s EXCEPT !.activeTouches = {}, !.primaryTouchId = Null])


-----------------------------------------------------------------------------
(* Touch events.  touchstart is bound to joystickBase and is delivered for *)
(* a touch that starts on the base; touchmove, touchend and touchcancel   *)
(* are bound to window and are delivered for every touch.  One touch      *)
(* changes per event.                                                     *)

TouchIdsOf(ts) == {ts[i][1] : i \in DOMAIN ts}

IndexOf(ts, id) == CHOOSE i \in DOMAIN ts : ts[i][1] = id

\* what a primary release leaves in zeroSends: counting starts when the release
\* happens while connected and usable
AfterRelease == IF isConnected /\ controllerUsable THEN 0 ELSE -1

TouchStart(id, p) ==
    /\ id \notin TouchIdsOf(touches)
    /\ LET ts == Append(touches, <<id, p, IsTouchInJoystick(p)>>)
       IN  /\ touches' = ts
           /\ IF IsTouchInJoystick(p)
              THEN Commit(HandleTouchStart(Globals, ts))
              ELSE UNCHANGED gvars
    /\ ev' = Event("touchstart", "none", <<id>>)
    /\ zeroSends' = -1
    /\ UNCHANGED <<startup, pollInFlight, axisInFlight, connectInFlight,
                   disconnectInFlight, lastSent, liftObs, linkObs, cmdvars>>

TouchMove(id, p) ==
    /\ id \in TouchIdsOf(touches)
    /\ touches[IndexOf(touches, id)][2] # p
    /\ LET ts == [touches EXCEPT ![IndexOf(touches, id)] = <<id, p, @[3]>>]
       IN  /\ touches' = ts
           /\ Commit(HandleTouchMove(Globals, ts))
    /\ ev' = Event("touchmove", "none", <<id>>)
    /\ zeroSends' = -1
    /\ UNCHANGED <<startup, pollInFlight, axisInFlight, connectInFlight,
                   disconnectInFlight, lastSent, liftObs, linkObs, cmdvars>>

TouchEnd(id) ==
    /\ id \in TouchIdsOf(touches)
    /\ LET ts == Remove(touches, IndexOf(touches, id))
           s  == HandleTouchEnd(Globals, <<id>>, ts)
           released == primaryTouchId = id /\ s.primaryTouchId = Null
       IN  /\ touches' = ts
           /\ Commit(s)
           /\ ev' = Event(IF released THEN "release" ELSE "touchend", "none", <<id>>)
           /\ zeroSends' = IF released THEN AfterRelease
                           ELSE IF primaryTouchId = id THEN -1 ELSE zeroSends
    /\ UNCHANGED <<startup, pollInFlight, axisInFlight, connectInFlight,
                   disconnectInFlight, lastSent, liftObs, linkObs, cmdvars>>

TouchCancel(id) ==
    /\ id \in TouchIdsOf(touches)
    /\ touches' = Remove(touches, IndexOf(touches, id))
    /\ Commit(HandleTouchCancel(Globals))
    /\ ev' = Event(IF primaryTouchId # Null THEN "release" ELSE "touchcancel",
                   "none", <<id, "touchcancel">>)
    /\ zeroSends' = IF primaryTouchId # Null THEN AfterRelease ELSE zeroSends
    /\ UNCHANGED <<startup, pollInFlight, axisInFlight, connectInFlight,
                   disconnectInFlight, lastSent, liftObs, linkObs, cmdvars>>

-----------------------------------------------------------------------------
(* Mouse events.  mousedown is bound to joystickBase and is delivered for  *)
(* a press on the base; mousemove and mouseup are bound to window and are *)
(* delivered wherever the pointer is.  The event carries no touches, so   *)
(* the handlers read its clientX and clientY.                             *)

\* moveJoystick(event) for the point of the mouse
MoveJoystick(s, p) == IF ~s.joystickActive THEN s ELSE HandleJoystickMove(s, p)

\* mousedown on the base: startJoystick(event)
MouseDown(p) ==
    /\ IsTouchInJoystick(p)
    /\ Commit(StartJoystick(Globals, p))
    /\ ev' = Event("mousedown", "none", <<>>)
    /\ zeroSends' = -1
    /\ UNCHANGED <<envvars, lastSent, liftObs, linkObs, cmdvars>>

\* mousemove anywhere: moveJoystick(event)
MouseMove(p) ==
    /\ Commit(MoveJoystick(Globals, p))
    /\ ev' = Event("mousemove", "none", <<>>)
    /\ zeroSends' = -1
    /\ UNCHANGED <<envvars, lastSent, liftObs, linkObs, cmdvars>>

\* mouseup anywhere: stopJoystick()
MouseUp ==
    /\ Commit(StopJoystick(Globals))
    /\ ev' = Event("mouseup", "none", <<>>)
    /\ zeroSends' = IF joystickActive THEN AfterRelease ELSE zeroSends
    /\ UNCHANGED <<envvars, lastSent, liftObs, linkObs, cmdvars>>

-----------------------------------------------------------------------------
(* Specifications *)

Startup == PermissionsSettle \/ AutoConnectResolve \/ AutoConnectReject

Link ==
    \/ ConnectClick
    \/ ConnectResolve
    \/ ConnectReject
    \/ DisconnectClick
    \/ DisconnectResolve
    \/ DisconnectReject

Poller == PollTick \/ PollReject \/ \E usable \in BOOLEAN : PollResolve(usable)

Dispatcher ==
    \/ Tick
    \/ \E i \in 1..MaxSends : AxisResolve(i)
    \/ \E i \in 1..MaxSends : AxisReject(i)

Slider == LiftingTimerFire \/ \E value \in LiftingInputs : LiftingInput(value)

Pointer(ids) ==
    \/ \E id \in ids, p \in Points : TouchStart(id, p)
    \/ \E id \in ids, p \in Points : TouchMove(id, p)
    \/ \E id \in ids : TouchEnd(id)
    \/ \E id \in ids : TouchCancel(id)

\* one finger on the screen at a time
OneFinger == {1}

\* up to two fingers on the screen at a time
TwoFingers == {1, 2}

\* the touch events with the points taken from pts
PointerOn(ids, pts) ==
    \/ \E id \in ids, p \in pts : TouchStart(id, p)
    \/ \E id \in ids, p \in pts : TouchMove(id, p)
    \/ \E id \in ids : TouchEnd(id)
    \/ \E id \in ids : TouchCancel(id)

\* every pixel of the horizontal and of the vertical diameter of the base
GridPoints ==
    {<<k, 0>> : k \in -(BaseWidth \div 2)..(BaseWidth \div 2)}
        \cup {<<0, k>> : k \in -(BaseWidth \div 2)..(BaseWidth \div 2)}

\* the left end of the horizontal and the lower end of the vertical diameter
\* of the base, both beyond the stick's travel
RangePoints == {<<-100, 0>>, <<0, 100>>}

\* Link supervision: start-up, the two buttons, the usability poller and the
\* axis dispatcher; nobody touches the joystick or the slider.
Next == Startup \/ Link \/ Poller \/ Dispatcher

Spec == Init /\ [][Next]_vars

\* Driving with one finger: start-up, the usability poller, the axis
\* dispatcher and the touch events; nobody presses the buttons.
NextAxis == Startup \/ Poller \/ Dispatcher \/ Pointer(OneFinger)

SpecAxis == Init /\ [][NextAxis]_vars

\* The slider channel under link supervision.
NextLift == Startup \/ Link \/ Poller \/ Slider

SpecLift == Init /\ [][NextLift]_vars

\* Driving with one finger under link supervision: start-up, the two buttons,
\* the usability poller and the touch events; the send timer never fires.
NextDrive == Startup \/ Link \/ Poller \/ Pointer(OneFinger)

SpecDrive == Init /\ [][NextDrive]_vars

\* Two fingers on the screen: start-up, the usability poller and the touch
\* events; nobody presses the buttons and the send timer never fires.
NextTouch == Startup \/ Poller \/ Pointer(TwoFingers)

SpecTouch == Init /\ [][NextTouch]_vars

\* One finger sliding along the two diameters of the base; nothing else
\* happens.
NextGrid == PointerOn(OneFinger, GridPoints)

SpecGrid == Init /\ [][NextGrid]_vars

\* Driving with one finger to both ends of the range of the axes while the
\* user connects and disconnects by hand (the automatic connection of the
\* page load still pending), with the poller and the send timer running.
NextRange ==
    Link \/ Poller \/ Dispatcher \/ PointerOn(OneFinger, RangePoints)

SpecRange == Init /\ [][NextRange]_vars

Mouse ==
    \/ \E p \in Points : MouseDown(p)
    \/ \E p \in Points : MouseMove(p)
    \/ MouseUp

\* Two fingers and a mouse: start-up, the usability poller, the touch events
\* and the mouse events.
NextPointer == Startup \/ Poller \/ Pointer(TwoFingers) \/ Mouse

SpecPointer == Init /\ [][NextPointer]_vars

Buttons ==
    \/ ClockAdvance
    \/ \E c \in Controls, kind \in {"touchstart", "click"} : Trigger(c, kind)

\* The arm command buttons: start-up, the usability poller, the three buttons
\* and the clock.
NextCmd == Startup \/ Poller \/ Buttons

SpecCmd == Init /\ [][NextCmd]_vars

\* Driving with one finger, with the scheduling the browser gives: an armed
\* interval timer keeps firing, and a transport round-trip settles.
AxisSettle == \E i \in 1..MaxSends : AxisResolve(i) \/ AxisReject(i)

SpecLive == SpecAxis /\ WF_vars(Tick) /\ WF_vars(AxisSettle)

-----------------------------------------------------------------------------
(* Properties *)

TickEvent == ev.op = "sendJoystickData"

AxisSendIssued == ev.call = "send_joystick_data"

TickSendsOnlyWhenConnectedAndUsable ==
    /\ AxisSendIssued => (TickEvent /\ isConnected /\ controllerUsable)
    /\ (TickEvent /\ ~(isConnected /\ controllerUsable)) => ev.call = "none"

\* C3 witness: a tick taken while the link is down (the send timer was re-armed
\* by a late poll answer) issues nothing
TickSkippedWhileDisconnected ==
    TickEvent /\ ~isConnected /\ controllerUsable /\ ev.call = "none"

CenterSendIssued == TickEvent /\ AxisSendIssued /\ ev.arg = Center

\* the link went down, usability was lost, or a contact drives the stick again
StopStateLeft == ~isConnected \/ ~controllerUsable \/ joystickActive

\* C5: once the primary contact is released while connected and usable, a send
\* carrying the center value is eventually issued, unless the link goes down,
\* usability is lost or a new contact takes the stick; and after a send that
\* failed in the released state a center send is eventually issued again.
StopStateEventuallySent ==
    /\ (ev.op = "release" /\ isConnected /\ controllerUsable)
           ~> (CenterSendIssued \/ StopStateLeft)
    /\ (ev.op = "sendReject" /\ ~StopStateLeft)
           ~> (CenterSendIssued \/ StopStateLeft)

\* C5 witness: a center send issued on a tick after a release
CenterSentAfterRelease == CenterSendIssued /\ ~StopStateLeft /\ zeroSends >= 1

LiftingSendIssued == ev.call = "send_lifting_arm_value"

\* C6: the expiry of a debounce window, taken while connected and usable,
\* issues exactly one channel send, carrying the last value submitted while
\* connected and usable; channel sends are issued by nothing else, and at most
\* one window is open at a time.
WindowSendsLastSubmittedValue ==
    /\ (ev.op = "liftingTimeout" /\ isConnected /\ controllerUsable) =>
           (LiftingSendIssued /\ ev.arg = <<liftLast>>)
    /\ LiftingSendIssued => (ev.op = "liftingTimeout" /\ Len(ev.arg) = 1)
    /\ liftTimers <= 1

\* C6 witness: a window that took three values or more has expired and sent
\* the last of them
CoalescedSend ==
    /\ ev.op = "liftingTimeout"
    /\ isConnected
    /\ controllerUsable
    /\ LiftingSendIssued
    /\ liftSubmits >= 3
    /\ ev.arg = <<liftLast>>

\* C7 (as claimed): no channel value is sent while the link is not connected
\* or the controller is not usable.
NoChannelSendUnlessConnectedAndUsable ==
    LiftingSendIssued => (isConnected /\ controllerUsable)

\* the steps that end with updateConnectionStatus(false) or
\* updateControllerStatus(false)
LossEvent ==
    /\ ev.op \in {"disconnectResolve", "disconnectReject", "connectReject",
                  "autoConnectReject", "pollResolve", "pollReject"}
    /\ ~controllerUsable

\* C8 (as claimed): right after the link is marked disconnected or the
\* controller unusable, no channel timer is armed and no channel value is
\* pending.
ChannelCancelledOnLoss ==
    LossEvent => (~liftingSendTimeoutId /\ liftTimers = 0 /\ liftingPendingValue = Null)

\* C9 (as claimed): the controller is not usable whenever the link is not
\* connected.
UsableOnlyWhileConnected == ~isConnected => ~controllerUsable

\* C10: a failed usability poll marks the controller unusable and leaves the
\* link as it was: isConnected and the poll timer are unchanged and no
\* transport call is issued.
PollFailureKeepsLink ==
    [][ev'.op = "pollReject" =>
           /\ ~controllerUsable'
           /\ isConnected' = isConnected
           /\ pollIntervalId' = pollIntervalId
           /\ pollTimers' = pollTimers
           /\ disconnectInFlight' = disconnectInFlight
           /\ ev'.call = "none"]_vars

\* C10 witness: a poll has failed on a connected link, which is still connected
\* and still polled
PollFailedWhileConnected ==
    ev.op = "pollReject" /\ isConnected /\ pollIntervalId /\ pollTimers = 1
        /\ ~controllerUsable

\* the step that ended was the completion of disconnect(), either way
DisconnectCompleted == ev.op \in {"disconnectResolve", "disconnectReject"}

\* C11: when disconnect() has completed, whether the transport call resolved
\* or rejected, the link is marked disconnected, neither the poll timer nor
\* the send timer is armed (none recorded, none live in the timer table), and
\* the axes hold the center value.
DisconnectStopsEverything ==
    DisconnectCompleted =>
        /\ ~isConnected
        /\ ~pollIntervalId
        /\ pollTimers = 0
        /\ ~sendIntervalId
        /\ sendTimers = 0
        /\ <<currentX, currentY>> = Center

\* C11 witness: a disconnect() issued on a connected link has completed while
\* a finger was holding the stick
DisconnectedWhileDriving ==
    /\ ev.op = "disconnectResolve"
    /\ ev.arg = <<TRUE>>
    /\ joystickActive
    /\ primaryTouchId # Null
    /\ <<currentX, currentY>> = Center

\* C12 (as claimed): when a connect or disconnect transport call fails, the
\* link state after the failure equals the link state at the time the attempt
\* was issued.
LinkRolledBackOnFailure ==
    ev.op \in {"connectReject", "disconnectReject", "autoConnectReject"} =>
        isConnected = ev.arg[1]

\* C13 (as claimed): a connect request made while another connect attempt
\* (an earlier connectToDevice() or the start-up autoConnect()) is still in
\* progress, or while the link is connected, issues no transport connect call.
NoConnectCallWhileConnecting ==
    (ev.op = "connectToDevice" /\ ev.call = "connect") =>
        /\ connectInFlight <= 1
        /\ startup # "autoConnect"
        /\ ~isConnected

ArmOps == {"grabArm", "releaseArm", "throwArm"}

\* C14: an accepted command invocation issues send_arm_command, carrying its
\* command, if and only if the link is connected at that moment, whatever the
\* controller usability; while disconnected it issues no transport call and
\* logs a warning; and nothing else issues send_arm_command.
CommandSentIffConnected ==
    /\ ev.op \in ArmOps =>
           IF isConnected
           THEN ev.call = "send_arm_command" /\ ev.arg[4] = ev.arg[1]
           ELSE ev.call = "none" /\ ev.arg[3] = "warning"
    /\ ev.call = "send_arm_command" => ev.op \in ArmOps

\* C14 witness: a command sent on a connected link whose controller is not
\* usable
CommandSentWhileUnusable ==
    ev.op \in ArmOps /\ isConnected /\ ~controllerUsable
        /\ ev.call = "send_arm_command"

\* C15: two accepted fires of one control are never less than 120 ms apart,
\* and a trigger is dropped exactly when it comes less than 120 ms after the
\* last accepted fire of its control: of two triggers within 120 ms, the
\* first of which is accepted, exactly one is accepted.
DebounceKeepsFiresApart ==
    /\ ev.op \in ArmOps => (ev.arg[2] = Null \/ ev.arg[2] >= DEBOUNCE_MS)
    /\ ev.op = "doAction" => (ev.arg[2] # Null /\ ev.arg[2] < DEBOUNCE_MS)

\* C15 witness: a trigger dropped 80 ms after an accepted fire of its control
SecondTriggerDropped == ev.op = "doAction" /\ ev.arg[2] = 80

\* the axes handleJoystickMove computes for the point p
AxesAt(p) ==
    LET s == HandleJoystickMove(Globals, p)
    IN  <<s.currentX, s.currentY>>

\* positions in the list ts of the touches that started on the base
Qualified(ts) == {i \in DOMAIN ts : ts[i][3]}

\* C16 (as claimed): when the touchend of the primary touch leaves on the
\* screen a touch that qualified for the joystick when it started, the step
\* ends with such a touch as the primary and the axes computed from its point,
\* so that no dispatcher tick finds the center value in between.
HandOffWithoutCenter ==
    [][(/\ ev'.op \in {"touchend", "release"}
        /\ ev'.arg = <<primaryTouchId>>
        /\ Qualified(touches') # {})
       => \E i \in Qualified(touches') :
              /\ primaryTouchId' = touches'[i][1]
              /\ joystickActive'
              /\ <<currentX', currentY'>> = AxesAt(touches'[i][2])]_vars

\* C17 (as claimed): the primary contact is always a touch that started on
\* the base, wherever it has moved since; and a touch that started on the base
\* stays eligible: the touchend of the primary never leaves the joystick
\* without a primary while such a touch is on the screen.
QualificationFixedAtStart ==
    [][/\ primaryTouchId' # Null =>
              \E i \in Qualified(touches') : touches'[i][1] = primaryTouchId'
       /\ (/\ ev'.op \in {"touchend", "release"}
           /\ ev'.arg = <<primaryTouchId>>
           /\ Qualified(touches') # {})
              => primaryTouchId' # Null]_vars

\* C18 (as claimed): after every move of the primary contact the axes are
\* those computed from its new point, clamped to the maximum radius when the
\* point lies beyond it, also when the point is outside the base.
PrimaryMoveRecomputesAxes ==
    (ev.op = "touchmove" /\ ev.arg = <<primaryTouchId>>) =>
        <<currentX, currentY>> = AxesAt(touches[IndexOf(touches, primaryTouchId)][2])

\* C19 (as claimed): a move or an end of a touch that is not the primary
\* contact leaves the axes, the primary contact and the joystick-active flag
\* unchanged.
NonPrimaryTouchIgnored ==
    [][(ev'.op \in {"touchmove", "touchend"} /\ ev'.arg[1] # primaryTouchId)
       => UNCHANGED <<currentX, currentY, primaryTouchId, joystickActive>>]_vars

\* C20 (as claimed): a touch start while a primary contact is assigned changes
\* neither the primary contact nor the axes; a touch start on the base while
\* no primary is assigned makes the starting touch the primary and sets the
\* axes from its point.
TouchStartAssignsPrimary ==
    [][ev'.op = "touchstart" =>
           IF primaryTouchId # Null
           THEN UNCHANGED <<primaryTouchId, currentX, currentY>>
           ELSE touches'[Len(touches')][3] =>
                    /\ primaryTouchId' = ev'.arg[1]
                    /\ <<currentX', currentY'>> = AxesAt(touches'[Len(touches')][2])]_vars

\* C21 (as claimed): right after the primary contact is released with nothing
\* to hand off to, and right after controller usability is lost, the axes are
\* (127, 127); and axes at the center leave it only by a contact start (a
\* touch start, a mouse press, the promotion of a waiting touch) or by a move
\* of the held primary contact.
CenterHeldUntilNewInput ==
    [][/\ (ev'.op \in {"release", "mouseup"} \/ (controllerUsable /\ ~controllerUsable'))
           => <<currentX', currentY'>> = Center
       /\ (<<currentX, currentY>> = Center /\ <<currentX', currentY'>> # Center)
           => \/ ev'.op \in {"touchstart", "mousedown", "mousemove"}
              \/ ev'.op \in {"touchmove", "touchend"} /\ ev'.arg = <<primaryTouchId>>]_vars

\* C28 (as claimed): whenever a primary touch is assigned, the joystick is
\* active and the primary touch is one of the tracked active touches.
PrimaryTouchIsActiveAndTracked ==
    primaryTouchId # Null => (joystickActive /\ primaryTouchId \in activeTouches)

IsByte(v) == v \in 0..255

\* C22: in every reachable state the axis values are integers in [0, 255],
\* and so is every value handed to send_joystick_data (the value of a send
\* just issued and of every send in flight).
AxesAreBytes ==
    /\ IsByte(currentX)
    /\ IsByte(currentY)
    /\ \A i \in DOMAIN axisInFlight : IsByte(axisInFlight[i][1]) /\ IsByte(axisInFlight[i][2])
    /\ AxisSendIssued => (IsByte(ev.arg[1]) /\ IsByte(ev.arg[2]))

\* C22 witness: both ends of the range are in flight at once, the low end sent
\* from a point beyond the stick's travel
BothEndsOfRangeSent ==
    /\ AxisSendIssued
    /\ ev.arg = <<0, 128>>
    /\ \E i \in DOMAIN axisInFlight : axisInFlight[i] = <<128, 255>>

\* the point of the only finger of the list ts
HeldPoint(ts) == ts[1][2]

\* C23: with the finger at position -1 of the stick's travel the encoder gives
\* 0, at position 1 it gives 255, at position 0 it gives 127 or 128, and a
\* move that does not decrease a coordinate does not decrease its axis
\* value, over every pixel of the two diameters of the base.
EncoderEndsAndMonotone ==
    [][(ev'.op \in {"touchstart", "touchmove"} /\ joystickActive') =>
          LET q == HeldPoint(touches')
          IN  /\ 200 * q[1] = -MaxRadius200 => currentX' = 0
              /\ 200 * q[2] = -MaxRadius200 => currentY' = 0
              /\ 200 * q[1] = MaxRadius200 => currentX' = 255
              /\ 200 * q[2] = MaxRadius200 => currentY' = 255
              /\ q[1] = 0 => currentX' \in {127, 128}
              /\ q[2] = 0 => currentY' \in {127, 128}
              /\ (ev'.op = "touchmove" /\ joystickActive) =>
                     LET p == HeldPoint(touches)
                     IN  /\ p[1] <= q[1] => currentX <= currentX'
                         /\ p[2] <= q[2] => currentY <= currentY']_vars

\* C23 witness: the finger has been dragged from a point left of the center to
\* position 1 on the right
DraggedToFullRight ==
    /\ ev.op = "touchmove"
    /\ joystickActive
    /\ 200 * HeldPoint(touches)[1] = MaxRadius200
    /\ <<currentX, currentY>> = <<255, 128>>

\* C24 (as claimed): the encoder's value for the exact zero position is the
\* center value of a reset, (127, 127), and while the primary contact is held
\* at full right with no vertical displacement the dispatcher sends
\* x = 255, y = 127.
CenterConventionConsistent ==
    /\ (/\ ev.op \in {"touchstart", "touchmove"}
        /\ joystickActive
        /\ HeldPoint(touches) = <<0, 0>>)
           => <<currentX, currentY>> = Center
    /\ (/\ TickEvent
        /\ AxisSendIssued
        /\ joystickActive
        /\ 200 * HeldPoint(touches)[1] = MaxRadius200
        /\ HeldPoint(touches)[2] = 0
        /\ ev.arg[1] = 255)
           => ev.arg = <<255, JOYSTICK_ZERO_VALUE>>

\* C25 (as claimed): while a disconnect() call is waiting for its transport
\* round-trip, no axis send and no lifting send is issued.
NoSendWhileDisconnectPending ==
    (AxisSendIssued \/ LiftingSendIssued) => disconnectInFlight = 0

\* C26: in every reachable state at most one debounce timer of the lifting
\* channel is armed, the timer id is set exactly when that timer exists, and
\* the timer is armed exactly when a value is pending (the pending value is a
\* single slider value or null).
OneLiftingTimerIffPending ==
    /\ liftTimers <= 1
    /\ liftingSendTimeoutId <=> liftTimers = 1
    /\ liftingSendTimeoutId <=> liftingPendingValue # Null
    /\ liftingPendingValue \in LiftingInputs \cup {Null}

\* C26 witness: a second value has been submitted while the timer of the first
\* is armed, and it has replaced the first as the pending value
SecondValueReplacesPending ==
    /\ ev.op = "queueLiftingSend"
    /\ liftSubmits = 2
    /\ liftTimers = 1
    /\ liftingSendTimeoutId
    /\ liftingPendingValue = ev.arg[1]

\* C27: at most one poll timer and at most one send timer exist at any time,
\* and each timer id is set exactly when its timer exists; a poll response
\* reporting usable = true while a send timer is armed, and a connect that
\* succeeds while the poll timer is armed, arm no second timer.
OnePollTimerOneSendTimer ==
    /\ pollTimers <= 1
    /\ sendTimers <= 1
    /\ pollIntervalId <=> pollTimers = 1
    /\ sendIntervalId <=> sendTimers = 1

\* C27 witness: a poll response reporting usable = true has arrived while the
\* send timer was already armed
UsableReportedAgain ==
    /\ ev.op = "pollResolve"
    /\ ev.arg = <<TRUE, TRUE>>
    /\ sendTimers = 1

\* C29: a lifting value submitted while the link is not connected or the
\* controller is not usable changes nothing of the lifting channel: no timer
\* is armed, the pending value (null or an earlier value) stays as it was;
\* and a later lifting send carries the pending value left by the submits
\* taken while connected and usable, never the dropped one.
DroppedSubmitHasNoEffect ==
    [][/\ (ev'.op = "queueLiftingSend" /\ ~(isConnected /\ controllerUsable))
           => UNCHANGED <<liftingPendingValue, liftingSendTimeoutId, liftTimers>>
       /\ ev'.op = "liftingTimeout"
           => ev'.arg = (IF liftingPendingValue = Null THEN <<>> ELSE <<liftLast>>)]_vars

\* C29 witness: a value has been submitted while the controller is not usable
\* and another value is pending, and the pending value is still the other one
SubmitDroppedBesidePending ==
    /\ ev.op = "queueLiftingSend"
    /\ ~(isConnected /\ controllerUsable)
    /\ liftingPendingValue # Null
    /\ liftingPendingValue # ev.arg[1]
    /\ liftTimers = 1

====
